---------------------------- MODULE Spec2Model ----------------------------
(***************************************************************************)
(* A model of perturbations/thai_perturb.py: the eight perturbation rules, *)
(* the registry ALL_PERTURBATIONS, the synonym table THAI_SYNONYMS and the *)
(* dispatcher apply_all.                                                   *)
(*                                                                         *)
(* A Python str is a sequence of Unicode code points (integers); every     *)
(* string literal of the source is written out as its code points.  The    *)
(* external tokenizer (pythainlp's word_tokenize) and the module-level     *)
(* generator of `random` are modelled as environment: the tokenizer by the *)
(* token sequence it returns for the sentence and by whether a call of it  *)
(* raises, the generator by a small deterministic state.                   *)
(***************************************************************************)
EXTENDS Integers, Sequences, FiniteSets, TLC

VARIABLES
    lexicon,          \* the module-level dict THAI_SYNONYMS
    registry,         \* the module-level dict ALL_PERTURBATIONS, in insertion order
    rng,              \* the state of the module-level generator of `random`
    sentence,         \* the caller's input sentence
    segmentation,     \* what word_tokenize(sentence, keep_whitespace=False) returns
    call,             \* the last call: its operation, how it ended, its value
    tokenizerFailure  \* the rule in which word_tokenize raised during the last
                      \* call, "none" when it did not raise

vars == <<lexicon, registry, rng, sentence, segmentation, call, tokenizerFailure>>

-----------------------------------------------------------------------------
(* Bounds of the model *)

\* the longest input, in words of the vocabulary below
MaxWords == 2
\* the generator has the states 0 .. RngMod - 1
RngMod == 16
\* the seed every caller gives the generator: random.seed(CallerSeed)
CallerSeed == 0

-----------------------------------------------------------------------------
(* The string literals of the source *)

SPACE == <<32>>
\* "ไม่"
NEG_PARTICLE == <<3652, 3617, 3656>>
\* "บลูเบอร์รี่"
RARE_WORD == <<3610, 3621, 3641, 3648, 3610, 3629, 3619, 3660, 3619, 3637, 3656>>
\* "ครู" and "ครูผู้หญิง"
TEACHER == <<3588, 3619, 3641>>
TEACHER_FEMALE == <<3588, 3619, 3641, 3612, 3641, 3657, 3627, 3597, 3636, 3591>>
\* "นักเรียน" and "นักเรียนชาย"
STUDENT == <<3609, 3633, 3585, 3648, 3619, 3637, 3618, 3609>>
STUDENT_MALE == <<3609, 3633, 3585, 3648, 3619, 3637, 3618, 3609, 3594, 3634, 3618>>
\* "เมื่อวานนี้"
YESTERDAY == <<3648, 3617, 3639, 3656, 3629, 3623, 3634, 3609, 3609, 3637, 3657>>
\* "กิน" and "รับประทาน"
EAT == <<3585, 3636, 3609>>
CONSUME == <<3619, 3633, 3610, 3611, 3619, 3632, 3607, 3634, 3609>>
\* "ฉัน", "ผม", "เธอ" and their replacements "สมชาย", "สมหญิง"
PRONOUN_I == <<3593, 3633, 3609>>
PRONOUN_I_MALE == <<3612, 3617>>
PRONOUN_YOU == <<3648, 3608, 3629>>
SOMCHAI == <<3626, 3617, 3594, 3634, 3618>>
SOMYING == <<3626, 3617, 3627, 3597, 3636, 3591>>
\* "ดี", "แย่", "เหนื่อย"
GOOD == <<3604, 3637>>
BAD == <<3649, 3618, 3656>>
TIRED == <<3648, 3627, 3609, 3639, 3656, 3629, 3618>>

\* THAI_SYNONYMS as the module defines it
THAI_SYNONYMS ==
    (GOOD :> << <<3648, 3618, 3637, 3656, 3618, 3617>>,
                <<3618, 3629, 3604, 3648, 3618, 3637, 3656, 3618, 3617>>,
                <<3648, 3621, 3636, 3624>> >>)
    @@ (BAD :> << <<3648, 3621, 3623>>,
                  <<3627, 3656, 3623, 3618>>,
                  <<3652, 3617, 3656, 3604, 3637>> >>)
    @@ (TIRED :> << <<3621, 3657, 3634>>,
                    <<3648, 3617, 3639, 3656, 3629, 3618>>,
                    <<3629, 3656, 3629, 3609, 3648, 3614, 3621, 3637, 3618>> >>)

-----------------------------------------------------------------------------
(* str operations *)

\* "".join(parts)
RECURSIVE Join(_)
Join(parts) ==
    IF parts = <<>> THEN <<>> ELSE Head(parts) \o Join(Tail(parts))

\* s[i:].startswith(pat), i counted from 1
MatchAt(s, pat, i) ==
    /\ i + Len(pat) - 1 <= Len(s)
    /\ SubSeq(s, i, i + Len(pat) - 1) = pat

\* pat in s
Contains(s, pat) ==
    \E i \in 1..(Len(s) - Len(pat) + 1) : MatchAt(s, pat, i)

\* s.replace(old, new) for a non-empty old: leftmost occurrences, not overlapping
RECURSIVE ReplaceFrom(_, _, _, _)
ReplaceFrom(s, old, new, i) ==
    IF i > Len(s) THEN <<>>
    ELSE IF MatchAt(s, old, i) THEN new \o ReplaceFrom(s, old, new, i + Len(old))
    ELSE <<s[i]>> \o ReplaceFrom(s, old, new, i + 1)

Replace(s, old, new) == ReplaceFrom(s, old, new, 1)

\* \w of `re` on str patterns: alphanumeric code points and the underscore.
\* Of the Thai block the letters and digits are, the combining vowels and
\* tone marks (category Mn) are not.
IsWordChar(c) ==
    \/ c \in 48..57 \/ c \in 65..90 \/ c = 95 \/ c \in 97..122
    \/ c \in 3585..3632 \/ c \in 3634..3635 \/ c \in 3648..3654 \/ c \in 3664..3673

IsWordAt(s, i) == i >= 1 /\ i <= Len(s) /\ IsWordChar(s[i])

\* \b holds in front of s[i]
Boundary(s, i) == IsWordAt(s, i - 1) # IsWordAt(s, i)

\* re.sub(r"\b" + pat + r"\b", repl, s)
RECURSIVE ReSubFrom(_, _, _, _)
ReSubFrom(s, pat, repl, i) ==
    IF i > Len(s) THEN <<>>
    ELSE IF MatchAt(s, pat, i) /\ Boundary(s, i) /\ Boundary(s, i + Len(pat))
         THEN repl \o ReSubFrom(s, pat, repl, i + Len(pat))
    ELSE <<s[i]>> \o ReSubFrom(s, pat, repl, i + 1)

ReSub(s, pat, repl) == ReSubFrom(s, pat, repl, 1)

-----------------------------------------------------------------------------
(* The module-level generator of `random` *)

\* the generator's state after one draw
RngNext(r) == (5 * r + 3) % RngMod

\* the number in 0 .. n-1 a draw from state r gives
RandBelow(r, n) == (RngNext(r) \div 2) % n

-----------------------------------------------------------------------------
(* The outcome of a call: how it ended, its value if it returned, and the  *)
(* generator's state after it                                              *)

NoOutput == <<>>

Returned(v, r) == [status |-> "returned", out |-> <<v>>, rng |-> r]
Raised(r) == [status |-> "raised", out |-> NoOutput, rng |-> r]

\* word_tokenize(sentence, keep_whitespace=False): tk.raised says whether
\* this call of the tokenizer raises, tk.tokens is what it returns otherwise
Tokenizer(tokens, raised) == [tokens |-> tokens, raised |-> raised]

-----------------------------------------------------------------------------
(* The rules *)

\* THAI_SYNONYMS.get(tok, [tok])
Alternatives(lex, tok) == IF tok \in DOMAIN lex THEN lex[tok] ELSE <<tok>>

\* [random.choice(THAI_SYNONYMS.get(tok, [tok])) for tok in tokens]
RECURSIVE new_tokens(_, _, _)
new_tokens(lex, tokens, r) ==
    IF tokens = <<>> THEN [pieces |-> <<>>, rng |-> r]
    ELSE LET alts == Alternatives(lex, Head(tokens))
             piece == alts[RandBelow(r, Len(alts)) + 1]
             rest == new_tokens(lex, Tail(tokens), RngNext(r))
         IN  [pieces |-> <<piece>> \o rest.pieces, rng |-> rest.rng]

\* taxonomy with " ".join(new_tokens) in place of "".join(new_tokens)
RECURSIVE JoinSpaced(_)
JoinSpaced(parts) ==
    IF parts = <<>> THEN <<>>
    ELSE IF Tail(parts) = <<>> THEN Head(parts)
    ELSE Head(parts) \o SPACE \o JoinSpaced(Tail(parts))

taxonomy_spaced(s, tk, lex, r) ==
    IF tk.raised THEN Raised(r)
    ELSE LET t == new_tokens(lex, tk.tokens, r)
         IN  Returned(JoinSpaced(t.pieces), t.rng)

taxonomy(s, tk, lex, r) ==
    IF tk.raised THEN Raised(r)
    ELSE LET t == new_tokens(lex, tk.tokens, r)
         IN  Returned(Join(t.pieces), t.rng)

ner(s) ==
    ReSub(ReSub(ReSub(s, PRONOUN_I, SOMCHAI), PRONOUN_I_MALE, SOMCHAI),
          PRONOUN_YOU, SOMYING)

\* negation without the test for the particle
negation_always(s) == NEG_PARTICLE \o SPACE \o s

\* negation with f"ไม่{sentence}" in place of f"ไม่ {sentence}"
negation_unseparated(s) ==
    IF Contains(s, NEG_PARTICLE) THEN s ELSE NEG_PARTICLE \o s

negation(s) ==
    IF Contains(s, NEG_PARTICLE) THEN s ELSE NEG_PARTICLE \o SPACE \o s

vocab(s) == s \o SPACE \o RARE_WORD

\* fairness without its second replace
fairness_teacher_only(s) == Replace(s, TEACHER, TEACHER_FEMALE)

fairness(s) ==
    Replace(Replace(s, TEACHER, TEACHER_FEMALE), STUDENT, STUDENT_MALE)

\* chars[idx] = chars[idx + 1] alone: a copy where the source swaps
SwapAt_copying(word, idx) ==
    [i \in 1..Len(word) |-> IF i = idx + 1 THEN word[idx + 2] ELSE word[i]]

\* chars[idx], chars[idx + 1] = chars[idx + 1], chars[idx], idx counted from 0
SwapAt(word, idx) ==
    [i \in 1..Len(word) |->
        IF i = idx + 1 THEN word[idx + 2]
        ELSE IF i = idx + 2 THEN word[idx + 1]
        ELSE word[i]]

\* random.randint(0, len(word) - 2)
SwapIndex(word, r) == RandBelow(r, Len(word) - 1)

swap_adjacent_chars(word, r) ==
    IF Len(word) < 2 THEN [word |-> word, rng |-> r]
    ELSE [word |-> SwapAt(word, SwapIndex(word, r)), rng |-> RngNext(r)]

\* (_swap_adjacent_chars(tok) for tok in tokens)
RECURSIVE swapped_tokens(_, _)
swapped_tokens(tokens, r) ==
    IF tokens = <<>> THEN [pieces |-> <<>>, rng |-> r]
    ELSE LET w == swap_adjacent_chars(Head(tokens), r)
             rest == swapped_tokens(Tail(tokens), w.rng)
         IN  [pieces |-> <<w.word>> \o rest.pieces, rng |-> rest.rng]

robustness(s, tk, r) ==
    IF tk.raised THEN Raised(r)
    ELSE LET t == swapped_tokens(tk.tokens, r)
         IN  Returned(Join(t.pieces), t.rng)

temporal(s) == YESTERDAY \o SPACE \o s

srl(s) == IF Contains(s, EAT) THEN Replace(s, EAT, CONSUME) ELSE s

-----------------------------------------------------------------------------
(* Registry and dispatcher *)

\* ALL_PERTURBATIONS with its last entry left out
ALL_PERTURBATIONS_without_srl ==
    << [name |-> "taxonomy", fn |-> "taxonomy"],
       [name |-> "ner", fn |-> "ner"],
       [name |-> "negation", fn |-> "negation"],
       [name |-> "vocab", fn |-> "vocab"],
       [name |-> "fairness", fn |-> "fairness"],
       [name |-> "robustness", fn |-> "robustness"],
       [name |-> "temporal", fn |-> "temporal"] >>

\* the dict ALL_PERTURBATIONS as the module defines it, in insertion order
ALL_PERTURBATIONS ==
    << [name |-> "taxonomy", fn |-> "taxonomy"],
       [name |-> "ner", fn |-> "ner"],
       [name |-> "negation", fn |-> "negation"],
       [name |-> "vocab", fn |-> "vocab"],
       [name |-> "fairness", fn |-> "fairness"],
       [name |-> "robustness", fn |-> "robustness"],
       [name |-> "temporal", fn |-> "temporal"],
       [name |-> "srl", fn |-> "srl"] >>

\* fn(sentence) for a rule function of the module; `failing` names the rule
\* in which this call's tokenizer raises ("none": in none)
CallRule(fn, s, tokens, failing, lex, r) ==
    CASE fn = "taxonomy" -> taxonomy(s, Tokenizer(tokens, failing = fn), lex, r)
      [] fn = "ner" -> Returned(ner(s), r)
      [] fn = "negation" -> Returned(negation(s), r)
      [] fn = "vocab" -> Returned(vocab(s), r)
      [] fn = "fairness" -> Returned(fairness(s), r)
      [] fn = "robustness" -> robustness(s, Tokenizer(tokens, failing = fn), r)
      [] fn = "temporal" -> Returned(temporal(s), r)
      [] fn = "srl" -> Returned(srl(s), r)

\* d[name] = value on a dict
DictSet(d, name, value) ==
    [n \in DOMAIN d \cup {name} |-> IF n = name THEN value ELSE d[n]]

\* apply_all with each rule in a try block that skips the rule that raises
RECURSIVE apply_items_skipping(_, _, _, _, _, _, _, _)
apply_items_skipping(reg, i, acc, s, tokens, failing, lex, r) ==
    IF i > Len(reg) THEN Returned(acc, r)
    ELSE LET res == CallRule(reg[i].fn, s, tokens, failing, lex, r)
         IN  apply_items_skipping(
                 reg, i + 1,
                 IF res.status = "raised" THEN acc
                 ELSE DictSet(acc, reg[i].name, res.out[1]),
                 s, tokens, failing, lex, res.rng)

\* the dict comprehension of apply_all, from the i-th item of the registry on:
\* an exception in a rule leaves the comprehension, and nothing is returned
RECURSIVE apply_items(_, _, _, _, _, _, _, _)
apply_items(reg, i, acc, s, tokens, failing, lex, r) ==
    IF i > Len(reg) THEN Returned(acc, r)
    ELSE LET res == CallRule(reg[i].fn, s, tokens, failing, lex, r)
         IN  IF res.status = "raised" THEN Raised(res.rng)
             ELSE apply_items(reg, i + 1, DictSet(acc, reg[i].name, res.out[1]),
                              s, tokens, failing, lex, res.rng)

apply_all(reg, s, tokens, failing, lex, r) ==
    apply_items(reg, 1, <<>>, s, tokens, failing, lex, r)

-----------------------------------------------------------------------------
(* The inputs *)

\* a word of length 1, "ก", and the tail "ักเรียน" of STUDENT
ONE_CHAR == <<3585>>
STUDENT_TAIL == <<3633, 3585, 3648, 3619, 3637, 3618, 3609>>

Words ==
    {SPACE, NEG_PARTICLE, GOOD, TEACHER, STUDENT, STUDENT_TAIL, ONE_CHAR}

WordSeqs == UNION {[1..n -> Words] : n \in 0..MaxWords}

IsSpace(w) == \A i \in 1..Len(w) : w[i] = 32

\* keep_whitespace=False: the tokens that are not whitespace
Segment(ws) == SelectSeq(ws, LAMBDA w : ~IsSpace(w))

-----------------------------------------------------------------------------
(* The state machine *)

NoCall == [op |-> "none", status |-> "none", out |-> NoOutput]

Init ==
    /\ lexicon = THAI_SYNONYMS
    /\ registry = ALL_PERTURBATIONS
    /\ rng = CallerSeed
    /\ \E ws \in WordSeqs : sentence = Join(ws) /\ segmentation = Segment(ws)
    /\ call = NoCall
    /\ tokenizerFailure = "none"

\* the caller sees how the call ended; the generator keeps the draws made
Finish(op, res, failing) ==
    /\ call' = [op |-> op, status |-> res.status, out |-> res.out]
    /\ rng' = res.rng
    /\ tokenizerFailure' = failing
    /\ UNCHANGED <<sentence, segmentation>>

\* random.seed(CallerSeed) by a caller
Seed ==
    /\ rng' = CallerSeed
    /\ call' = NoCall
    /\ tokenizerFailure' = "none"
    /\ UNCHANGED <<lexicon, registry, sentence, segmentation>>

\* the Taxonomy call with THAI_SYNONYMS.setdefault(tok, [tok]) in place of
\* THAI_SYNONYMS.get(tok, [tok]): every token looked up becomes a key
Taxonomy_setdefault ==
    \E failing \in {"none", "taxonomy"} :
        /\ Finish("taxonomy",
                  CallRule("taxonomy", sentence, segmentation, failing, lexicon, rng),
                  failing)
        /\ lexicon' =
               IF failing = "none"
               THEN [tok \in DOMAIN lexicon \cup {segmentation[i] : i \in DOMAIN segmentation}
                        |-> Alternatives(lexicon, tok)]
               ELSE lexicon
        /\ UNCHANGED registry

Taxonomy ==
    \E failing \in {"none", "taxonomy"} :
        /\ Finish("taxonomy",
                  CallRule("taxonomy", sentence, segmentation, failing, lexicon, rng),
                  failing)
        /\ UNCHANGED <<lexicon, registry>>

Robustness ==
    \E failing \in {"none", "robustness"} :
        /\ Finish("robustness",
                  CallRule("robustness", sentence, segmentation, failing, lexicon, rng),
                  failing)
        /\ UNCHANGED <<lexicon, registry>>

Ner ==
    /\ Finish("ner",
              CallRule("ner", sentence, segmentation, "none", lexicon, rng),
              "none")
    /\ UNCHANGED <<lexicon, registry>>

Negation ==
    /\ Finish("negation",
              CallRule("negation", sentence, segmentation, "none", lexicon, rng),
              "none")
    /\ UNCHANGED <<lexicon, registry>>

Vocab ==
    /\ Finish("vocab",
              CallRule("vocab", sentence, segmentation, "none", lexicon, rng),
              "none")
    /\ UNCHANGED <<lexicon, registry>>

Fairness ==
    /\ Finish("fairness",
              CallRule("fairness", sentence, segmentation, "none", lexicon, rng),
              "none")
    /\ UNCHANGED <<lexicon, registry>>

Temporal ==
    /\ Finish("temporal",
              CallRule("temporal", sentence, segmentation, "none", lexicon, rng),
              "none")
    /\ UNCHANGED <<lexicon, registry>>

Srl ==
    /\ Finish("srl",
              CallRule("srl", sentence, segmentation, "none", lexicon, rng),
              "none")
    /\ UNCHANGED <<lexicon, registry>>

ApplyAll ==
    \E failing \in {"none", "taxonomy", "robustness"} :
        /\ Finish("apply_all",
                  apply_all(registry, sentence, segmentation, failing, lexicon, rng),
                  failing)
        /\ UNCHANGED <<lexicon, registry>>

Next ==
    \/ Seed
    \/ Taxonomy
    \/ Ner
    \/ Negation
    \/ Vocab
    \/ Fairness
    \/ Robustness
    \/ Temporal
    \/ Srl
    \/ ApplyAll

Spec == Init /\ [][Next]_vars

-----------------------------------------------------------------------------
(* Properties *)

EightNames ==
    {"taxonomy", "ner", "negation", "vocab", "fairness", "robustness",
     "temporal", "srl"}

ApplyAllReturned == call.op = "apply_all" /\ call.status = "returned"

\* C1, as the specification states it: for every sentence, apply_all returns,
\* and what it returns is a mapping whose keys are exactly the eight names.
C1_ApplyAllAlwaysReturnsEightNames ==
    call.op = "apply_all" =>
        /\ call.status = "returned"
        /\ DOMAIN call.out[1] = EightNames

\* C1, amended: for every sentence, the empty and the whitespace-only ones
\* included, apply_all returns unless a call of the tokenizer raises during
\* it, and whenever it returns, the keys of the mapping are exactly the eight
\* names.
C1_ApplyAllReturnsEightNamesUnlessTokenizerRaises ==
    call.op = "apply_all" =>
        /\ tokenizerFailure = "none" => call.status = "returned"
        /\ call.status = "returned" => DOMAIN call.out[1] = EightNames

\* apply_all has returned the eight keys for a sentence of whitespace alone
C1_Witness ==
    /\ ApplyAllReturned
    /\ sentence = SPACE
    /\ DOMAIN call.out[1] = EightNames

\* C2: when the tokenizer raises, or returns no token for a sentence that is
\* not empty, taxonomy and robustness fail; they do not return a string.
C2_TokenizerFailurePropagates ==
    ( /\ call.op \in {"taxonomy", "robustness"}
      /\ \/ tokenizerFailure # "none"
         \/ segmentation = <<>> /\ sentence # <<>> )
    => call.status = "raised"

\* C3: when a rule fails during apply_all, whichever it is, apply_all fails
\* and the caller gets no result set, not even a partial one.
C3_FailureAbortsApplyAll ==
    (call.op = "apply_all" /\ tokenizerFailure # "none")
    => (call.status = "raised" /\ call.out = NoOutput)

\* apply_all has failed in robustness, the sixth rule, after five rules ran
C3_Witness ==
    /\ call.op = "apply_all"
    /\ tokenizerFailure = "robustness"
    /\ call.status = "raised"

\* C4: negation returns a sentence that holds the particle as it is, and
\* negation of what negation returned is what negation returned.
C4_NegationIdempotent ==
    call.op = "negation" =>
        LET o == call.out[1]
        IN  /\ Contains(sentence, NEG_PARTICLE) => o = sentence
            /\ negation(o) = o

\* negation was called on a sentence that holds the particle after its start
C4_Witness ==
    /\ call.op = "negation"
    /\ Contains(sentence, NEG_PARTICLE)
    /\ ~MatchAt(sentence, NEG_PARTICLE, 1)
    /\ call.out[1] = sentence

\* C5: for a sentence without the particle, negation returns the particle,
\* one space, and the sentence.
C5_NegationPrepends ==
    (call.op = "negation" /\ ~Contains(sentence, NEG_PARTICLE)) =>
        LET o == call.out[1]
            n == Len(NEG_PARTICLE)
        IN  /\ Len(o) = n + 1 + Len(sentence)
            /\ SubSeq(o, 1, n) = NEG_PARTICLE
            /\ o[n + 1] = 32
            /\ SubSeq(o, n + 2, Len(o)) = sentence

\* negation was called on the empty sentence
C5_Witness ==
    /\ call.op = "negation"
    /\ sentence = <<>>
    /\ call.out[1] = NEG_PARTICLE \o SPACE

\* the positions at which a and b differ
DiffPositions(a, b) == {i \in 1..Len(a) : a[i] # b[i]}

\* a and b hold the same characters, each as many times
IsPermutation(a, b) ==
    /\ Len(a) = Len(b)
    /\ \A i \in 1..Len(a) :
           Cardinality({j \in 1..Len(a) : a[j] = a[i]})
               = Cardinality({j \in 1..Len(b) : b[j] = a[i]})

\* C6: robustness of a sentence of one token T returns a string as long as
\* T, a permutation of T that differs from T in at most two adjacent places;
\* every draw gives an index in 0 .. len(T) - 2; a T shorter than 2 comes
\* back as it is.
C6_RobustnessTransposes ==
    ( /\ call.op = "robustness"
      /\ call.status = "returned"
      /\ Len(segmentation) = 1 ) =>
        LET T == segmentation[1]
            o == call.out[1]
        IN  /\ Len(o) = Len(T)
            /\ IsPermutation(o, T)
            /\ \E i \in 0..Len(T) : DiffPositions(o, T) \subseteq {i, i + 1}
            /\ Len(T) >= 2 =>
                   \A r \in 0..(RngMod - 1) : SwapIndex(T, r) \in 0..(Len(T) - 2)
            /\ Len(T) < 2 => o = T

\* robustness has changed a sentence of one token
C6_Witness ==
    /\ call.op = "robustness"
    /\ call.status = "returned"
    /\ Len(segmentation) = 1
    /\ Len(segmentation[1]) >= 2
    /\ call.out[1] # segmentation[1]

\* the strings a token may become: the members of its entry, or itself
Pieces(tok) ==
    IF tok \in DOMAIN THAI_SYNONYMS
    THEN {THAI_SYNONYMS[tok][k] : k \in 1..Len(THAI_SYNONYMS[tok])}
    ELSE {tok}

\* the concatenations of one piece per token, in the order of the tokens
RECURSIVE Concatenations(_)
Concatenations(tokens) ==
    IF tokens = <<>> THEN {<<>>}
    ELSE {p \o rest : p \in Pieces(Head(tokens)),
                      rest \in Concatenations(Tail(tokens))}

\* C7: taxonomy returns the concatenation, in token order and with nothing
\* between, of one piece per token: a member of the token's entry when the
\* token is a key of the lexicon, the token otherwise.
C7_TaxonomyPieces ==
    (call.op = "taxonomy" /\ call.status = "returned")
    => call.out[1] \in Concatenations(segmentation)

\* taxonomy has replaced a key of the lexicon next to a token that is none
C7_Witness ==
    /\ call.op = "taxonomy"
    /\ call.status = "returned"
    /\ Len(segmentation) = 2
    /\ segmentation[1] \in DOMAIN THAI_SYNONYMS
    /\ segmentation[2] \notin DOMAIN THAI_SYNONYMS
    /\ call.out[1] # sentence

\* C8: a call of taxonomy or robustness returns what the caller's own
\* generator, seeded with CallerSeed, gives for the sentence, whatever calls
\* came before it.
C8_SeededCallersAgree ==
    (call.op \in {"taxonomy", "robustness"} /\ call.status = "returned")
    => call.out
           = CallRule(call.op, sentence, segmentation, "none", lexicon,
                      CallerSeed).out

\* the registry holds the eight names, each with its own rule, and the
\* lexicon its entries
RegistryAndLexiconIntact ==
    /\ Len(registry) = 8
    /\ {<<registry[i].name, registry[i].fn>> : i \in 1..Len(registry)}
           = {<<n, n>> : n \in EightNames}
    /\ lexicon = THAI_SYNONYMS

\* C9: in every state the registry holds the eight names, each with its own
\* rule, and the lexicon its initial entries; no step alters the sentence.
C9_NoSideEffects ==
    /\ []RegistryAndLexiconIntact
    /\ [][sentence' = sentence]_vars

\* apply_all has looked up a token that is no key of the lexicon
C9_Witness ==
    /\ ApplyAllReturned
    /\ \E i \in 1..Len(segmentation) : segmentation[i] \notin DOMAIN lexicon
    /\ RegistryAndLexiconIntact

\* "ผู้หญิง" and "ชาย"
FEMALE_SUFFIX == <<3612, 3641, 3657, 3627, 3597, 3636, 3591>>
MALE_SUFFIX == <<3594, 3634, 3618>>

\* where pat occurs in s
Occurrences(s, pat) == {i \in 1..Len(s) : MatchAt(s, pat, i)}

\* where a scan of s from the left, going on behind each occurrence it
\* finds, finds pat
RECURSIVE ScannedFrom(_, _, _)
ScannedFrom(s, pat, i) ==
    IF i > Len(s) THEN {}
    ELSE IF MatchAt(s, pat, i) THEN {i} \cup ScannedFrom(s, pat, i + Len(pat))
    ELSE ScannedFrom(s, pat, i + 1)

\* s from its i-th character on, with the female suffix behind each
\* occurrence of TEACHER that starts in `teachers` and the male suffix behind
\* each occurrence of STUDENT that starts in `students`
RECURSIVE Suffixed(_, _, _, _)
Suffixed(s, teachers, students, i) ==
    IF i > Len(s) THEN <<>>
    ELSE <<s[i]>>
         \o (IF i - Len(TEACHER) + 1 \in teachers THEN FEMALE_SUFFIX ELSE <<>>)
         \o (IF i - Len(STUDENT) + 1 \in students THEN MALE_SUFFIX ELSE <<>>)
         \o Suffixed(s, teachers, students, i + 1)

\* C10, as the specification states it: fairness returns the sentence with
\* the female suffix behind every occurrence of the teacher noun and the
\* male suffix behind every occurrence of the student noun.
C10_FairnessSuffixesEveryOccurrence ==
    call.op = "fairness" =>
        call.out[1] = Suffixed(sentence, Occurrences(sentence, TEACHER),
                               Occurrences(sentence, STUDENT), 1)

\* C10, amended: fairness returns the sentence with the female suffix behind
\* every occurrence of the teacher noun and the male suffix behind every
\* occurrence of the student noun that a scan from the left finds when it
\* goes on behind each occurrence found (an occurrence that overlaps one the
\* scan has taken gets no suffix); the rest of the sentence is unchanged.
C10_FairnessSuffixesScannedOccurrences ==
    call.op = "fairness" =>
        call.out[1] = Suffixed(sentence, ScannedFrom(sentence, TEACHER, 1),
                               ScannedFrom(sentence, STUDENT, 1), 1)

\* fairness was called on a sentence with both nouns
C10_Witness ==
    /\ call.op = "fairness"
    /\ Contains(sentence, TEACHER)
    /\ Contains(sentence, STUDENT)
    /\ call.out[1] # sentence

=============================================================================
